---- MODULE Spec2Model ----
(***************************************************************************)
(* A model of morango's sync client (src/morango/syncsession.py): the      *)
(* SyncClient controller that drives one TransferSession through           *)
(* queuing -> pushing|pulling -> dequeuing -> completed, the chunked       *)
(* push / pull loops, and the outcomes of every transport request.         *)
(*                                                                         *)
(* Records are identified by their position in primary-key order (0..N-1). *)
(* The persisted tables are `sessions` (TransferSession rows, id = index), *)
(* `buffer` (local Buffer rows per transfer session), `store` (rows merged *)
(* by dequeue_into_store) and, on the peer, `peerBuf` (rows the peer keeps *)
(* per transfer session, keyed by record, so a re-sent row is kept once).  *)
(* `sync_sessions` is the SyncSession table that create_sync_session and   *)
(* close_sync_session write, and `request` the retry loop of one           *)
(* NetworkSyncConnection._request.                                         *)
(***************************************************************************)
EXTENDS Integers, Sequences, FiniteSets, TLC

\* ---------------------------------------------------------------- bounds
MaxSessions == 2        \* TransferSession rows ever created
MaxRecords == 150       \* largest records_total
RecordStep == 150       \* records_total is drawn from the multiples of this
MaxLog == 5             \* requests of one call before a runaway pull loop is cut
MaxUndershoot == 200    \* how far below 0 a runaway pull may take the cursor
MaxFaults == 2          \* steps of a run in which a request fails or the client restarts
MaxSyncSessions == 2    \* SyncSession rows ever created
MaxRetries == 5         \* largest max_retries a _request is made with
MaxTimeout == 3         \* largest timeout a _request is made with

\* ------------------------------------------------------ program constants
Hundred == 100          \* chunk_size % 100 (SyncClient.__init__)

\* ---------------------------------------------------------------- inputs
Filters == {"F1", "F2"}
ChunkSizes == {-100, 0, 50, 100, 200}
RecordTotals == {n \in 0..MaxRecords : n % RecordStep = 0}
Outcomes == {"ok", "http", "conn"}
Pairs == {"P1", "P2"}   \* (client_cert, server_cert) pairs
\* what one requests.request + raise_for_status of _request comes to: a 2xx
\* response, a response of another status, or a requests ConnectionError
Responses == {"2xx", "non2xx", "connfail"}

\* transfer_status constants
QUEUING == "queuing"
PUSHING == "pushing"
PULLING == "pulling"
DEQUEUING == "dequeuing"
COMPLETED == "completed"

NoTotal == -1           \* records_total is NULL until the queuing stage sets it
None == 0               \* an empty current_transfer_session slot

VARIABLES
    sync_sessions,              \* SyncSession table: Seq of rows, id = index
    sync_session,               \* SyncClient.sync_session (id or None)
    request,                    \* the _request call in progress
    sessions,                   \* TransferSession table: Seq of rows, id = index
    buffer,                     \* Buffer rows of each transfer session (local)
    peerBuf,                    \* rows the peer holds for each transfer session
    store,                      \* rows dequeue_into_store merged, per session
    constructed,                \* a SyncClient exists
    chunk_size,                 \* SyncClient.chunk_size
    current_transfer_session,   \* SyncClient.current_transfer_session (id or None)
    pc,                         \* position inside initiate_push / initiate_pull
    count,                      \* loop variable of _push_records
    log,                        \* requests and store-engine calls of this call
    call,                       \* the call in progress: push, filter, session
    result,                     \* how the last call ended
    faults                      \* failed requests and restarts so far

vars == <<sync_sessions, sync_session, request, sessions, buffer, peerBuf, store, constructed, chunk_size,
          current_transfer_session, pc, count, log, call, result, faults>>

Ids == 1..MaxSessions

\* the call in progress: its arguments, the session _starting adopted or created
\* (fresh), that session's persisted stage and cursor when the call began, and
\* whether every request of the call so far succeeded
NoCall == [push |-> FALSE, filter |-> "", sid |-> None, fresh |-> FALSE, allok |-> TRUE,
           stage0 |-> "", cursor0 |-> 0]

\* ------------------------------------------------------------ pure helpers

\* int(ceil(a / float(b))) for b # 0, as _push_records computes it
CeilDiv(a, b) == IF b > 0 THEN -((-a) \div b) ELSE -(a \div (-b))

Max(a, b) == IF a >= b THEN a ELSE b

\* SyncClient.__init__: the only test a chunk_size has to pass
ChunkSizeAccepted(c) == c % Hundred = 0

\* a TransferSession row as TransferSession.objects.create(**data) makes it
NewSession(f, push) ==
    [sync_session |-> sync_session,
     filter |-> f, push |-> push, active |-> TRUE, records_total |-> NoTotal,
     records_transferred |-> 0, transfer_stage |-> QUEUING]

\* a lookup that keeps the rows whose active flag is off
TransferSyncs_Inactive(ss, f, push) ==
    {i \in 1..Len(ss) : /\ ss[i].sync_session = sync_session
                        /\ ss[i].filter = f /\ ~ss[i].active /\ ss[i].push = push}

\* _starting: self.sync_session.transfersession_set.filter(filter=..)
\* .filter(active=True).filter(push=..)
TransferSyncs(ss, f, push) ==
    {i \in 1..Len(ss) : /\ ss[i].sync_session = sync_session
                        /\ ss[i].filter = f /\ ss[i].active /\ ss[i].push = push}

\* _starting, push resume: every other active transfer session of the sync
\* session is turned off
DeactivateOthers(ss, s) ==
    [i \in 1..Len(ss) |->
        IF i = s \/ ss[i].sync_session # ss[s].sync_session THEN ss[i]
        ELSE [ss[i] EXCEPT !.active = FALSE]]

\* _starting, push resume: Buffer rows of every other transfer session of the
\* sync session are deleted
PurgeOthers(buf, s) ==
    [i \in Ids |->
        IF i = s \/ i > Len(sessions) THEN buf[i]
        ELSE IF sessions[i].sync_session # sessions[s].sync_session THEN buf[i]
        ELSE {}]

\* the two branches of _queuing persisting each other's stage
StageAfterQueuing_Swapped(push) == IF push THEN PULLING ELSE PUSHING

\* the stage _queuing persists
StageAfterQueuing(push) == IF push THEN PUSHING ELSE PULLING

\* an error handler that leaves the row active
Deactivated_StaysActive(ss, s) == ss

\* a close that records the stage and leaves the row active
Completed_StillActive(ss, s) == [ss EXCEPT ![s].transfer_stage = COMPLETED]

\* the two writes of _close_transfer_session
Deactivated(ss, s) == [ss EXCEPT ![s].active = FALSE]
Completed(ss, s) == [ss EXCEPT ![s].active = FALSE, ![s].transfer_stage = COMPLETED]

\* records_transferred += chunk_size; save()
Advanced(ss, s, c) ==
    [ss EXCEPT ![s].records_transferred = ss[s].records_transferred + c]

\* a page range that runs one page too far
NumPages_OneMore(n, c) == CeilDiv(Max(1, n), c) + 1

\* Paginator(buffered_records, chunk_size).num_pages
NumPages(n, c) == CeilDiv(Max(1, n), c)

\* page_number of _push_records
PageNumber(transferred, c) == CeilDiv(transferred, c) + 1

\* buffered_pages.page(p).object_list: rows bottom..top-1 in primary-key order
PageRows(rows, c, p) ==
    LET n == Cardinality(rows)
        bottom == (p - 1) * c
        top == IF bottom + c >= n THEN n ELSE bottom + c
    IN {r \in rows : bottom <= r /\ r < top}

\* every chunk is asked for from the start of the peer's buffer
PullOffset_Zero(ts) == 0

\* _pull_record_chunk: the offset parameter of GET /buffers
PullOffset(ts) == ts.records_transferred

\* the rows the peer answers GET /buffers?limit=&offset= with
PeerSlice(total, offset, limit) ==
    {r \in 0..(total - 1) : offset <= r /\ r < offset + limit}

\* the short-circuit is never taken
IsEmptyTransfer_Never(ts) == FALSE

\* "if self.current_transfer_session.records_total == 0" of initiate_push / _pull
IsEmptyTransfer(ts) == ts.records_total = 0

\* the loop condition of _pull_records
PullMore(ts) == ts.records_transferred < ts.records_total

\* the Buffer rows are left behind
BufferDeleted_Kept(buf, s) == buf

\* Buffer.objects.filter(transfer_session=...).delete() of _pushing
BufferDeleted(buf, s) == [buf EXCEPT ![s] = {}]

\* ------------------------------------------------- _close_transfer_session
\* With an empty slot, transfer_session.id fails before any request is made.
CloseRequest(cur) == IF cur = None THEN <<>> ELSE << <<"DELETE_ts", cur>> >>

\* a handler that catches every transport error, not only HTTPError
CloseSessions_CatchAll(ss, cur, o) ==
    IF cur = None THEN ss
    ELSE IF o = "ok" THEN Completed(ss, cur)
    ELSE Deactivated(ss, cur)

\* a close that marks the row completed although the DELETE was refused
CloseSessions_PretendClosed(ss, cur, o) ==
    IF cur = None \/ o = "conn" THEN ss
    ELSE Completed(ss, cur)

CloseSessions(ss, cur, o) ==
    IF cur = None \/ o = "conn" THEN ss
    ELSE IF o = "http" THEN Deactivated(ss, cur)
    ELSE Completed(ss, cur)

\* a close that never empties the slot
CloseCurrent_Kept(cur, o) == cur

CloseCurrent(cur, o) == IF o = "ok" THEN None ELSE cur

CloseRaises(cur, o) ==
    IF cur = None THEN "AttributeError"
    ELSE IF o = "http" THEN "HTTPError"
    ELSE IF o = "conn" THEN "ConnectionError"
    ELSE "none"

\* ------------------------------------------------------------------ state
\* an idle _request
NoRequest == [max_retries |-> 0, timeout |-> 0, i |-> 0, slept |-> 0,
              attempts |-> <<>>, status |-> "none"]

Init ==
    /\ sync_sessions = <<>>
    /\ sync_session = None
    /\ request = NoRequest
    /\ sessions = <<>>
    /\ buffer = [i \in Ids |-> {}]
    /\ peerBuf = [i \in Ids |-> {}]
    /\ store = [i \in Ids |-> {}]
    /\ constructed = FALSE
    /\ chunk_size = 0
    /\ current_transfer_session = None
    /\ pc = "idle"
    /\ count = 0
    /\ log = <<>>
    /\ call = NoCall
    /\ result = "none"
    /\ faults = 0

Cur == sessions[current_transfer_session]

\* the call ends: it returns, or the exception `r` reaches the caller
Ends(r) ==
    /\ pc' = "idle"
    /\ result' = r

Continues(next) ==
    /\ pc' = next
    /\ result' = "running"

\* the requests `entries` were made and the first of them had the outcome `o`
Logged(entries, o) ==
    /\ log' = log \o entries
    /\ call' = [call EXCEPT !.allok = call.allok /\ o = "ok"]
    /\ IF o = "ok" THEN faults' = faults ELSE faults < MaxFaults /\ faults' = faults + 1

\* a lookup that never finds a row
ActiveSyncSessions_None(rows, p) == {}

\* the matching active SyncSession rows create_sync_session looks for
ActiveSyncSessions(rows, p) ==
    {i \in 1..Len(rows) : rows[i].active /\ rows[i].pair = p}

\* the message create_sync_session signs and the peer signs back
Message(nonce, id) == <<nonce, id>>

\* the signatures a peer may answer POST /syncsessions with: by the server
\* certificate's key or by another key, over the message sent or another one
Signatures(p, message) ==
    [signer : {p, "other"}, message : {message, Message(0, 0)}]

\* a verification that accepts every signature
Verify_Always(p, message, signature) == TRUE

\* server_cert.verify(message, signature)
Verify(p, message, signature) ==
    signature.signer = p /\ signature.message = message

\* SyncClient.__init__ on the SyncSession row `s`
CreateSyncClient(s, c) ==
    /\ IF ChunkSizeAccepted(c)
       THEN /\ constructed' = TRUE /\ chunk_size' = c /\ sync_session' = s
            /\ result' = IF pc = "idle" THEN "constructed" ELSE "crashed"
       ELSE /\ constructed' = FALSE /\ chunk_size' = 0 /\ sync_session' = None
            /\ result' = "MorangoError"
    /\ current_transfer_session' = None

\* no SyncClient is returned: the exception `e` reaches the caller
NoSyncClient(e) ==
    /\ constructed' = FALSE /\ chunk_size' = 0 /\ sync_session' = None
    /\ current_transfer_session' = None
    /\ result' = e

\* NetworkSyncConnection.create_sync_session for the certificate pair `p`.
\* With an active matching SyncSession it builds a new SyncClient on it; taken
\* while a call is in progress it is a restart of the client process, which
\* abandons the call.  Otherwise it fetches the server certificate chain when
\* that is not known locally, asks for a nonce, POSTs the signed session,
\* verifies the peer's signature and only then creates the local row.
create_sync_session(p, c) ==
    /\ pc' = "idle"
    /\ count' = 0
    /\ call' = NoCall
    /\ UNCHANGED <<request, sessions, buffer, peerBuf, store>>
    /\ LET active == ActiveSyncSessions(sync_sessions, p)
           new == Len(sync_sessions) + 1
       IN IF active # {}
          THEN \E s \in active :
                 /\ CreateSyncClient(s, c)
                 /\ log' = <<>>
                 /\ sync_sessions' = sync_sessions
                 /\ IF pc = "idle" THEN faults' = faults
                    ELSE faults < MaxFaults /\ faults' = faults + 1
          ELSE /\ pc = "idle"
               /\ \E known \in BOOLEAN, o \in Outcomes :
                    LET chain == IF known THEN <<>> ELSE << <<"GET_cert", p>> >>
                        reqs == chain \o << <<"POST_nonce", p>>, <<"POST_ss", new>> >>
                    IN /\ IF o = "ok" THEN faults' = faults
                          ELSE faults < MaxFaults /\ faults' = faults + 1
                       /\ IF o # "ok"
                          THEN \* the request that failed was the last one made
                               \E made \in 1..Len(reqs) :
                                 /\ log' = SubSeq(reqs, 1, made)
                                 /\ sync_sessions' = sync_sessions
                                 /\ NoSyncClient(IF o = "http" THEN "HTTPError"
                                                 ELSE "ConnectionError")
                          ELSE \E sig \in Signatures(p, Message(new, new)) :
                                 /\ log' = reqs \o << <<"signature", sig>> >>
                                 /\ IF ~Verify(p, Message(new, new), sig)
                                    THEN /\ sync_sessions' = sync_sessions
                                         /\ NoSyncClient("CertificateSignatureInvalid")
                                    ELSE /\ new <= MaxSyncSessions
                                         /\ sync_sessions' = Append(sync_sessions,
                                                [pair |-> p, active |-> TRUE])
                                         /\ CreateSyncClient(new, c)

\* SyncClient.close_sync_session: DELETE /syncsessions/{id}, then the test of
\* the slot, then the local row is turned off
close_sync_session ==
    /\ constructed
    /\ pc = "idle"
    /\ pc' = "idle"
    /\ call' = NoCall
    /\ UNCHANGED <<request, constructed, chunk_size, current_transfer_session,
                   sessions, buffer, peerBuf, store, count>>
    /\ IF sync_session = None
       THEN /\ UNCHANGED <<sync_sessions, sync_session, faults>>
            /\ log' = <<>>
            /\ result' = "AttributeError"
       ELSE \E o \in Outcomes :
              /\ log' = << <<"DELETE_ss", sync_session>> >>
              /\ IF o = "ok" THEN faults' = faults
                 ELSE faults < MaxFaults /\ faults' = faults + 1
              /\ IF o = "http"
                 THEN UNCHANGED <<sync_sessions, sync_session>> /\ result' = "HTTPError"
                 ELSE IF o = "conn"
                 THEN /\ UNCHANGED <<sync_sessions, sync_session>>
                      /\ result' = "ConnectionError"
                 ELSE IF current_transfer_session # None
                 THEN /\ UNCHANGED <<sync_sessions, sync_session>>
                      /\ result' = "MorangoError"
                 ELSE /\ sync_sessions' = [sync_sessions EXCEPT ![sync_session].active = FALSE]
                      /\ sync_session' = None
                      /\ result' = "closed"

\* initiate_push / initiate_pull up to the return of _starting
Starting(f, push) ==
    /\ constructed
    /\ pc = "idle"
    /\ count' = 0
    /\ UNCHANGED <<sync_sessions, sync_session, request, constructed, chunk_size, peerBuf, store>>
    /\ LET found == TransferSyncs(sessions, f, push)
           new == Len(sessions) + 1
       IN IF sync_session = None
          THEN \* self.sync_session.transfersession_set of a closed sync session
               /\ UNCHANGED <<sessions, buffer, current_transfer_session, faults>>
               /\ log' = <<>>
               /\ call' = [NoCall EXCEPT !.push = push, !.filter = f]
               /\ Ends("AttributeError")
          ELSE IF found # {}
          THEN \* resume: transfer_syncs[0]
               \E s \in found :
                 /\ current_transfer_session' = s
                 /\ sessions' = IF push THEN DeactivateOthers(sessions, s) ELSE sessions
                 /\ buffer' = IF push THEN PurgeOthers(buffer, s) ELSE buffer
                 /\ log' = <<>>
                 /\ faults' = faults
                 /\ call' = [push |-> push, filter |-> f, sid |-> s,
                             fresh |-> FALSE, allok |-> TRUE,
                             stage0 |-> sessions[s].transfer_stage,
                             cursor0 |-> sessions[s].records_transferred]
                 /\ Continues("queuing")
          ELSE IF push
          THEN \* POST /transfersessions, then the local row
               \E o \in Outcomes :
                 /\ log' = << <<"POST_ts", new>> >>
                 /\ buffer' = buffer
                 /\ IF o = "ok" THEN faults' = faults
                    ELSE faults < MaxFaults /\ faults' = faults + 1
                 /\ IF o = "ok"
                    THEN /\ new <= MaxSessions
                         /\ sessions' = Append(sessions, NewSession(f, TRUE))
                         /\ current_transfer_session' = new
                         /\ call' = [push |-> TRUE, filter |-> f, sid |-> new,
                                     fresh |-> TRUE, allok |-> TRUE,
                                     stage0 |-> QUEUING, cursor0 |-> 0]
                         /\ Continues("queuing")
                    ELSE /\ call' = [push |-> TRUE, filter |-> f, sid |-> None,
                                     fresh |-> TRUE, allok |-> FALSE,
                                     stage0 |-> "", cursor0 |-> 0]
                         /\ current_transfer_session' = current_transfer_session
                         /\ IF o = "conn"
                            THEN sessions' = sessions /\ Ends("ConnectionError")
                            ELSE IF current_transfer_session = None
                            THEN sessions' = sessions /\ Ends("AttributeError")
                            ELSE /\ sessions' = Deactivated(sessions, current_transfer_session)
                                 /\ Ends("HTTPError")
          ELSE \* the local row is created before any request
               /\ new <= MaxSessions
               /\ sessions' = Append(sessions, NewSession(f, FALSE))
               /\ current_transfer_session' = new
               /\ buffer' = buffer
               /\ log' = <<>>
               /\ faults' = faults
               /\ call' = [push |-> FALSE, filter |-> f, sid |-> new,
                           fresh |-> TRUE, allok |-> TRUE,
                           stage0 |-> QUEUING, cursor0 |-> 0]
               /\ Continues("queuing")

initiate_push(f) == Starting(f, TRUE)

initiate_pull(f) == Starting(f, FALSE)

\* "if transfer_stage == QUEUING: self._queuing(data, push)"
Queuing ==
    /\ pc = "queuing"
    /\ UNCHANGED <<sync_sessions, sync_session, request, constructed, chunk_size, current_transfer_session, peerBuf, store,
                   count>>
    /\ LET s == current_transfer_session IN
       IF Cur.transfer_stage # QUEUING
       THEN /\ UNCHANGED <<sessions, buffer, log, call, faults>>
            /\ Continues("total_check")
       ELSE IF Cur.push
       THEN \* _queue_into_buffer, then records_total = count of the Buffer rows
            \E n \in RecordTotals :
              /\ buffer' = [buffer EXCEPT ![s] = 0..(n - 1)]
              /\ sessions' = [sessions EXCEPT
                    ![s].records_total = Cardinality(buffer'[s]),
                    ![s].transfer_stage = StageAfterQueuing(TRUE)]
              /\ Logged(<< <<"queue", s>> >>, "ok")
              /\ Continues("total_check")
       ELSE \* POST /transfersessions: the peer queues and answers records_total
            \E o \in Outcomes :
              /\ buffer' = buffer
              /\ Logged(<< <<"POST_ts", s>> >>, o)
              /\ IF o = "ok"
                 THEN \E n \in RecordTotals :
                        /\ sessions' = [sessions EXCEPT
                              ![s].records_total = n,
                              ![s].transfer_stage = StageAfterQueuing(FALSE)]
                        /\ Continues("total_check")
                 ELSE IF o = "http"
                 THEN sessions' = Deactivated(sessions, s) /\ Ends("HTTPError")
                 ELSE sessions' = sessions /\ Ends("ConnectionError")

\* "if records_total == 0: self._close_transfer_session(); return"
TotalCheck ==
    /\ pc = "total_check"
    /\ UNCHANGED <<sync_sessions, sync_session, request, constructed, chunk_size, buffer, peerBuf, store, count>>
    /\ IF IsEmptyTransfer(Cur)
       THEN \E o \in Outcomes :
              /\ Logged(CloseRequest(current_transfer_session), o)
              /\ sessions' = CloseSessions(sessions, current_transfer_session, o)
              /\ current_transfer_session' = CloseCurrent(current_transfer_session, o)
              /\ LET e == CloseRaises(current_transfer_session, o)
                 IN Ends(IF e = "none" THEN "returned" ELSE e)
       ELSE /\ UNCHANGED <<sessions, current_transfer_session, log, call, faults>>
            /\ Continues("transfer")

\* the exception that leaves an "except HTTPError: self._close_transfer_session();
\* raise" handler: the one close raised, or else the HTTPError caught
AfterClose(cur, o) ==
    LET e == CloseRaises(cur, o) IN IF e = "none" THEN "HTTPError" ELSE e

\* "if transfer_stage == PUSHING: self._pushing()" up to the page range of
\* _push_records: PATCH /transfersessions/{id}, then page_number
Pushing ==
    /\ pc = "transfer"
    /\ Cur.push
    /\ UNCHANGED <<sync_sessions, sync_session, request, constructed, chunk_size, buffer, peerBuf, store, sessions,
                   current_transfer_session>>
    /\ LET s == current_transfer_session IN
       IF Cur.transfer_stage # PUSHING
       THEN /\ UNCHANGED <<log, call, count, faults>>
            /\ Continues("dequeuing")
       ELSE \E o \in Outcomes :
            /\ Logged(<< <<"PATCH_ts", s>> >>, o)
            /\ IF o = "ok"
               THEN IF chunk_size = 0
                    THEN count' = 0 /\ Ends("ZeroDivisionError")
                    ELSE /\ count' = PageNumber(Cur.records_transferred, chunk_size)
                         /\ Continues("push_loop")
               ELSE /\ UNCHANGED count
                    /\ IF o = "conn" THEN Ends("ConnectionError")
                       ELSE Continues("except_outer")

\* one iteration of the loop of _push_records, up to the response of POST /buffers.
\* buffered_pages.page(count) raises EmptyPage for a page number below 1.
PushRecordChunk ==
    /\ pc = "push_loop"
    /\ count <= NumPages(Cardinality(buffer[current_transfer_session]), chunk_size)
    /\ UNCHANGED <<sync_sessions, sync_session, request, constructed, chunk_size, buffer, store, count, sessions,
                   current_transfer_session>>
    /\ LET s == current_transfer_session IN
       IF count < 1
       THEN /\ UNCHANGED <<peerBuf, log, call, faults>>
            /\ Ends("EmptyPage")
       ELSE
       \E o \in Outcomes :
         /\ Logged(<< <<"POST_buf", count>> >>, o)
         /\ IF o = "ok"
            THEN /\ peerBuf' = [peerBuf EXCEPT
                                  ![s] = @ \cup PageRows(buffer[s], chunk_size, count)]
                 /\ Continues("push_save")
            ELSE /\ peerBuf' = peerBuf
                 /\ IF o = "conn" THEN Ends("ConnectionError")
                    ELSE Continues("except_inner")

\* "records_transferred += chunk_size; save()" of _push_records
PushCursor ==
    /\ pc = "push_save"
    /\ sessions' = Advanced(sessions, current_transfer_session, chunk_size)
    /\ count' = count + 1
    /\ Continues("push_loop")
    /\ UNCHANGED <<sync_sessions, sync_session, request, constructed, chunk_size, current_transfer_session, buffer, peerBuf,
                   store, log, call, faults>>

\* _pushing after _push_records returned: the Buffer rows are deleted
PushDeleteBuffer ==
    /\ pc = "push_loop"
    /\ count > NumPages(Cardinality(buffer[current_transfer_session]), chunk_size)
    /\ buffer' = BufferDeleted(buffer, current_transfer_session)
    /\ count' = 0
    /\ Continues("push_stage")
    /\ UNCHANGED <<sync_sessions, sync_session, request, constructed, chunk_size, current_transfer_session, sessions, peerBuf,
                   store, log, call, faults>>

\* _pushing: transfer_stage = DEQUEUING; save()
PushStage ==
    /\ pc = "push_stage"
    /\ sessions' = [sessions EXCEPT ![current_transfer_session].transfer_stage = DEQUEUING]
    /\ Continues("dequeuing")
    /\ UNCHANGED <<sync_sessions, sync_session, request, constructed, chunk_size, current_transfer_session, buffer, peerBuf,
                   store, log, call, count, faults>>

\* "if transfer_stage == PULLING: self._pulling()": entering _pull_records
Pulling ==
    /\ pc = "transfer"
    /\ ~Cur.push
    /\ Continues(IF Cur.transfer_stage = PULLING THEN "pull_loop" ELSE "dequeuing")
    /\ UNCHANGED <<sync_sessions, sync_session, request, constructed, chunk_size, current_transfer_session, sessions, buffer,
                   peerBuf, store, log, call, count, faults>>

\* one iteration of the loop of _pull_records: GET /buffers, the rows are saved,
\* the cursor advances
PullRecordChunk ==
    /\ pc = "pull_loop"
    /\ PullMore(Cur)
    /\ Len(log) < MaxLog
    /\ Cur.records_transferred + chunk_size >= -MaxUndershoot
    /\ UNCHANGED <<sync_sessions, sync_session, request, constructed, chunk_size, peerBuf, store, count,
                   current_transfer_session>>
    /\ LET s == current_transfer_session IN
       \E o \in Outcomes :
         /\ Logged(<< <<"GET_buf", PullOffset(Cur)>> >>, o)
         /\ IF o = "ok"
            THEN /\ buffer' = [buffer EXCEPT ![s] = @ \cup
                                 PeerSlice(Cur.records_total, PullOffset(Cur), chunk_size)]
                 /\ sessions' = Advanced(sessions, s, chunk_size)
                 /\ Continues("pull_loop")
            ELSE /\ UNCHANGED <<sessions, buffer>>
                 /\ IF o = "conn" THEN Ends("ConnectionError")
                    ELSE Continues("except_inner")

\* _pulling after _pull_records returned: transfer_stage = DEQUEUING; save()
PullStage ==
    /\ pc = "pull_loop"
    /\ ~PullMore(Cur)
    /\ sessions' = [sessions EXCEPT ![current_transfer_session].transfer_stage = DEQUEUING]
    /\ Continues("dequeuing")
    /\ UNCHANGED <<sync_sessions, sync_session, request, constructed, chunk_size, current_transfer_session, buffer, peerBuf,
                   store, log, call, count, faults>>

\* "except requests.HTTPError: self._close_transfer_session(); raise" inside
\* _push_records and _pull_records.  What leaves the handler of _pull_records
\* passes the try of _pulling, whose own handler catches an HTTPError again.
ExceptInner ==
    /\ pc = "except_inner"
    /\ UNCHANGED <<sync_sessions, sync_session, request, constructed, chunk_size, buffer, peerBuf, store, count>>
    /\ LET s == current_transfer_session IN
       \E o \in Outcomes :
         /\ Logged(CloseRequest(s), o)
         /\ sessions' = CloseSessions(sessions, s, o)
         /\ current_transfer_session' = CloseCurrent(s, o)
         /\ IF ~call.push /\ AfterClose(s, o) = "HTTPError"
            THEN Continues("except_outer")
            ELSE Ends(AfterClose(s, o))

\* the same handler in _pushing (around the PATCH) and in _pulling (around
\* _pull_records); the slot is empty when an inner close already succeeded
ExceptOuter ==
    /\ pc = "except_outer"
    /\ UNCHANGED <<sync_sessions, sync_session, request, constructed, chunk_size, buffer, peerBuf, store, count>>
    /\ LET s == current_transfer_session IN
       IF s = None
       THEN /\ UNCHANGED <<sessions, current_transfer_session, log, call, faults>>
            /\ Ends(AfterClose(s, "ok"))
       ELSE \E o \in Outcomes :
              /\ Logged(CloseRequest(s), o)
              /\ sessions' = CloseSessions(sessions, s, o)
              /\ current_transfer_session' = CloseCurrent(s, o)
              /\ Ends(AfterClose(s, o))

\* "if transfer_stage == DEQUEUING: self._dequeuing(push)".  A push closes the
\* transfer session, which ends initiate_push; a pull merges the Buffer rows
\* into the store.
Dequeuing ==
    /\ pc = "dequeuing"
    /\ UNCHANGED <<sync_sessions, sync_session, request, constructed, chunk_size, peerBuf, count>>
    /\ LET s == current_transfer_session IN
       IF Cur.push
       THEN /\ UNCHANGED <<buffer, store>>
            /\ IF Cur.transfer_stage = DEQUEUING
               THEN \E o \in Outcomes :
                      /\ Logged(CloseRequest(s), o)
                      /\ sessions' = CloseSessions(sessions, s, o)
                      /\ current_transfer_session' = CloseCurrent(s, o)
                      /\ LET e == CloseRaises(s, o)
                         IN Ends(IF e = "none" THEN "returned" ELSE e)
               ELSE /\ UNCHANGED <<sessions, current_transfer_session, log, call, faults>>
                    /\ Ends("returned")
       ELSE /\ UNCHANGED <<sessions, current_transfer_session>>
            /\ IF Cur.transfer_stage = DEQUEUING
               THEN /\ store' = [store EXCEPT ![s] = @ \cup buffer[s]]
                    /\ buffer' = [buffer EXCEPT ![s] = {}]
                    /\ Logged(<< <<"dequeue", s>> >>, "ok")
               ELSE UNCHANGED <<buffer, store, log, call, faults>>
            /\ Continues("closing")

\* the end of initiate_pull: DatabaseMaxCounter.update_fsics, then
\* _close_transfer_session
ClosePull ==
    /\ pc = "closing"
    /\ UNCHANGED <<sync_sessions, sync_session, request, constructed, chunk_size, buffer, peerBuf, store, count>>
    /\ LET s == current_transfer_session IN
       \E o \in Outcomes :
         /\ Logged(<< <<"update_fsics", s>> >> \o CloseRequest(s), o)
         /\ sessions' = CloseSessions(sessions, s, o)
         /\ current_transfer_session' = CloseCurrent(s, o)
         /\ LET e == CloseRaises(s, o)
            IN Ends(IF e = "none" THEN "returned" ELSE e)

\* the steps of initiate_push / initiate_pull after _starting
Transfer ==
    \/ Queuing
    \/ TotalCheck
    \/ Pushing
    \/ PushRecordChunk
    \/ PushCursor
    \/ PushDeleteBuffer
    \/ PushStage
    \/ Pulling
    \/ PullRecordChunk
    \/ PullStage
    \/ ExceptInner
    \/ ExceptOuter
    \/ Dequeuing
    \/ ClosePull

\* the steps of a call on the SyncClient
Step ==
    \/ \E f \in Filters : initiate_push(f)
    \/ \E f \in Filters : initiate_pull(f)
    \/ Transfer

\* a client may be built with any chunk size the caller passes
Next ==
    \/ \E c \in ChunkSizes : create_sync_session("P1", c)
    \/ Step

Spec == Init /\ [][Next]_vars

\* the caller passes only chunk sizes that are positive multiples of 100,
\* and sizes the constructor rejects
NextPositive ==
    \/ \E c \in {k \in ChunkSizes : k > 0} : create_sync_session("P1", c)
    \/ Step

SpecPositive == Init /\ [][NextPositive]_vars

\* the caller builds every client of a run with one and the same chunk size
NextSame ==
    \/ \E c \in {k \in ChunkSizes : ChunkSizeAccepted(k)} :
          /\ constructed => c = chunk_size
          /\ create_sync_session("P1", c)
    \/ Step

SpecSame == Init /\ [][NextSame]_vars

\* the life of the SyncSessions of two certificate pairs: sessions are created,
\* reused and closed, around pushes of one filter with chunk size 100 (50 is a
\* size the constructor rejects)
NextSync ==
    \/ \E p \in Pairs, c \in {k \in ChunkSizes : k \in {50, 100}} :
          create_sync_session(p, c)
    \/ close_sync_session
    \/ initiate_push("F1")
    \/ Queuing
    \/ TotalCheck
    \/ Pushing
    \/ PushRecordChunk
    \/ PushCursor
    \/ PushDeleteBuffer
    \/ PushStage
    \/ ExceptInner
    \/ ExceptOuter
    \/ Dequeuing

SpecSync == Init /\ [][NextSync]_vars

\* ------------------------------------------ NetworkSyncConnection._request

\* retried as well: a response of a non-2xx status
Retried_AlsoStatus(r) == r \in {"connfail", "non2xx"}

\* "except request_exceptions": the failures of an attempt that are retried
Retried(r) == r = "connfail"

\* everything but the request in progress
clientVars == <<sync_sessions, sync_session, sessions, buffer, peerBuf, store,
                constructed, chunk_size, current_transfer_session, pc, count, log,
                call, result, faults>>

\* _request(..., timeout=t, max_retries=m) is called
Request(m, t) ==
    /\ request.status # "looping"
    /\ request' = [max_retries |-> m, timeout |-> t, i |-> 0, slept |-> 0,
                   attempts |-> <<>>, status |-> "looping"]
    /\ UNCHANGED clientVars

\* one turn of "for i in range(max_retries)": requests.request and
\* raise_for_status; a retried failure sleeps timeout*i and goes round again,
\* a response is returned, any other exception leaves _request
RequestAttempt ==
    /\ request.status = "looping"
    /\ request.i < request.max_retries
    /\ \E r \in Responses :
          request' = [request EXCEPT
              !.attempts = Append(@, r),
              !.slept = IF Retried(r) THEN @ + request.timeout * request.i ELSE @,
              !.i = IF Retried(r) THEN @ + 1 ELSE @,
              !.status = IF Retried(r) THEN "looping"
                         ELSE IF r = "2xx" THEN "returned" ELSE "HTTPError"]
    /\ UNCHANGED clientVars

\* the else of the for loop: raise requests.exceptions.ConnectionError
RequestExhausted ==
    /\ request.status = "looping"
    /\ request.i >= request.max_retries
    /\ request' = [request EXCEPT !.status = "ConnectionError"]
    /\ UNCHANGED clientVars

NextRequest ==
    \/ \E m \in 0..MaxRetries, t \in 0..MaxTimeout : Request(m, t)
    \/ RequestAttempt
    \/ RequestExhausted

SpecRequest == Init /\ [][NextRequest]_vars

\* ------------------------------------------------------------ type check
TypeOK ==
    /\ Len(sessions) <= MaxSessions
    /\ current_transfer_session \in 0..Len(sessions)
    /\ pc \in {"idle", "queuing", "total_check", "transfer", "push_loop", "push_save",
               "push_stage", "pull_loop", "except_inner", "except_outer",
               "dequeuing", "closing"}
    /\ pc \notin {"idle", "except_outer"} => constructed /\ current_transfer_session # None
    /\ Len(sync_sessions) <= MaxSyncSessions
    /\ sync_session \in 0..Len(sync_sessions)
    /\ constructed => (sync_session = None \/ sync_sessions[sync_session].active)

\* ------------------------------------------------------------------ claims

StageRank(st) ==
    CASE st = QUEUING -> 1
      [] st \in {PUSHING, PULLING} -> 2
      [] st = DEQUEUING -> 3
      [] st = COMPLETED -> 4

StagesOf(push) ==
    IF push THEN {QUEUING, PUSHING, DEQUEUING, COMPLETED}
    ELSE {QUEUING, PULLING, DEQUEUING, COMPLETED}

\* C1: the persisted transfer_stage of every TransferSession never moves
\* backwards along queuing < pushing|pulling < dequeuing < completed, a push
\* session never holds stage pulling and a pull session never stage pushing,
\* over any sequence of calls, failures, restarts and resumes.
C1_StageForward ==
    [][\A i \in 1..Len(sessions') :
          /\ sessions'[i].transfer_stage \in StagesOf(sessions'[i].push)
          /\ i <= Len(sessions) =>
                StageRank(sessions'[i].transfer_stage) >= StageRank(sessions[i].transfer_stage)
      ]_vars

\* a push and a pull session both completed after transferring records, in a
\* run with a failure or restart
C1_Witness ==
    /\ faults > 0
    /\ \E i, j \in 1..Len(sessions) :
          /\ sessions[i].push /\ ~sessions[j].push
          /\ sessions[i].transfer_stage = COMPLETED /\ sessions[i].records_transferred > 0
          /\ sessions[j].transfer_stage = COMPLETED /\ sessions[j].records_transferred > 0

\* C2 as stated: once records_total is set, records_transferred <= records_total
C2_CursorWithinTotal ==
    \A i \in 1..Len(sessions) :
        sessions[i].records_total # NoTotal =>
            sessions[i].records_transferred <= sessions[i].records_total

\* C2 as amended: the cursor of a TransferSession changes only by one chunk_size
\* of the running client, and only from a value below records_total; so it
\* passes records_total by less than one chunk, and it does so whenever
\* records_total is not a multiple of chunk_size.
C2_CursorAdvance ==
    [][\A i \in 1..Len(sessions) :
          sessions'[i].records_transferred # sessions[i].records_transferred =>
              /\ sessions[i].records_total # NoTotal
              /\ sessions[i].records_transferred < sessions[i].records_total
              /\ sessions'[i].records_transferred =
                     sessions[i].records_transferred + chunk_size
      ]_vars

\* the cursor of a session went past its records_total
C2_Witness ==
    \E i \in 1..Len(sessions) :
        /\ sessions[i].records_total > 0
        /\ sessions[i].records_transferred > sessions[i].records_total
        /\ sessions[i].transfer_stage = COMPLETED

\* C3: at most one active TransferSession per (filter, push)
C3_OneActivePerPair ==
    \A i, j \in 1..Len(sessions) :
        (/\ i # j
         /\ sessions[i].sync_session = sessions[j].sync_session
         /\ sessions[i].active /\ sessions[j].active
         /\ sessions[i].filter = sessions[j].filter)
        => sessions[i].push # sessions[j].push

\* a second session of a (filter, push) pair was created, after a failure, while
\* the first one of that pair exists
C3_Witness ==
    /\ faults > 0
    /\ \E i, j \in 1..Len(sessions) :
          /\ i < j
          /\ sessions[i].filter = sessions[j].filter
          /\ sessions[i].push = sessions[j].push
          /\ sessions[j].active

\* C4: when initiate_push returns normally, the session it drove has no Buffer
\* rows, is at stage completed and is inactive
C4_PushReturned ==
    (pc = "idle" /\ result = "returned" /\ call.push) =>
        /\ buffer[call.sid] = {}
        /\ sessions[call.sid].transfer_stage = COMPLETED
        /\ ~sessions[call.sid].active

\* a push resumed from a persisted stage returned, having had records to push
C4_Witness ==
    /\ pc = "idle" /\ result = "returned" /\ call.push
    /\ ~call.fresh
    /\ call.stage0 = PUSHING
    /\ sessions[call.sid].records_total > 0

\* the entries of the log of the call that are requests of kind k
Kinds(k) == SelectSeq(log, LAMBDA e : e[1] = k)
NumOf(k) == Len(Kinds(k))

\* the session the call in progress (or the call that just ended) drives
CallSession == sessions[call.sid]

\* C5: a fresh initiate_pull of N > 0 records with chunk size c in which every
\* request succeeds issues exactly ceil(N/c) GET /buffers, at the offsets
\* 0, c, 2c, ... (each the persisted records_transferred); every record of
\* [0, N) is in the local buffer before dequeue_into_store; the call then
\* dequeues, updates the fsics, closes, and ends at stage completed.
C5_FreshPull ==
    LET N == CallSession.records_total
        gets == Kinds("GET_buf")
    IN (/\ call.sid # None /\ ~call.push /\ call.fresh /\ call.allok
        /\ result \in {"running", "returned"}
        /\ N > 0)
       =>
       /\ \A k \in 1..Len(gets) : gets[k][2] = (k - 1) * chunk_size
       /\ Len(gets) > 0 => (chunk_size # 0 /\ Len(gets) <= CeilDiv(N, chunk_size))
       /\ pc = "pull_loop" => CallSession.records_transferred = Len(gets) * chunk_size
       /\ pc = "dequeuing" =>
             /\ Len(gets) = CeilDiv(N, chunk_size)
             /\ buffer[call.sid] = 0..(N - 1)
             /\ NumOf("dequeue") = 0
       /\ result = "returned" =>
             /\ log = << <<"POST_ts", call.sid>> >> \o gets \o
                      << <<"dequeue", call.sid>>, <<"update_fsics", call.sid>>,
                         <<"DELETE_ts", call.sid>> >>
             /\ store[call.sid] = 0..(N - 1)
             /\ CallSession.transfer_stage = COMPLETED

\* a fresh pull of more than one chunk returned with every request succeeding
C5_Witness ==
    /\ pc = "idle" /\ result = "returned"
    /\ call.sid # None /\ ~call.push /\ call.fresh /\ call.allok
    /\ NumOf("GET_buf") > 1

\* C6: when initiate_push resumes a session at stage pushing, possibly with
\* another chunk_size than the earlier attempt, then by the time the push
\* completes every buffered record has been POSTed to the peer
C6_NoRecordSkipped ==
    (/\ pc = "idle" /\ result = "returned"
     /\ call.push /\ ~call.fresh /\ call.stage0 = PUSHING
     /\ CallSession.records_total > 0)
    => \A r \in 0..(CallSession.records_total - 1) : r \in peerBuf[call.sid]

\* C7: a push interrupted in the pushing stage and re-invoked with the same
\* chunk_size completes with the peer holding every buffered record, once
C7_SameChunkResume ==
    (/\ pc = "idle" /\ result = "returned"
     /\ call.push /\ ~call.fresh /\ call.stage0 = PUSHING
     /\ CallSession.records_total > 0)
    => /\ peerBuf[call.sid] = 0..(CallSession.records_total - 1)
       /\ CallSession.transfer_stage = COMPLETED

\* the cases of C5 and C7 with a chunk size that is a positive multiple of 100
C5_PositiveChunk == chunk_size > 0 => C5_FreshPull
C7_PositiveChunk == chunk_size > 0 => C7_SameChunkResume

\* C8: initiate_pull re-invoked on an active pull session at stage pulling
\* reuses that session and creates no new one, sends no POST /transfersessions,
\* and its first GET /buffers has the persisted records_transferred as offset,
\* the persisted records_total being the one of the earlier attempt
C8_PullResume ==
    /\ [](( /\ call.sid # None /\ ~call.push /\ ~call.fresh
            /\ call.stage0 = PULLING )
          => /\ NumOf("POST_ts") = 0
             /\ NumOf("GET_buf") > 0 => Kinds("GET_buf")[1][2] = call.cursor0)
    /\ [][( /\ pc = "idle" /\ pc' = "queuing" /\ ~call'.push
            /\ \E i \in 1..Len(sessions) :
                  /\ sessions[i].active /\ ~sessions[i].push
                  /\ sessions[i].filter = call'.filter
                  /\ sessions[i].transfer_stage = PULLING )
          => /\ sessions' = sessions
             /\ ~call'.fresh
             /\ sessions[call'.sid].active /\ ~sessions[call'.sid].push
             /\ sessions[call'.sid].filter = call'.filter
             /\ call'.sid = current_transfer_session'
      ]_vars

\* a pull resumed at stage pulling, past the first chunk, asked for a chunk
C8_Witness ==
    /\ call.sid # None /\ ~call.push /\ ~call.fresh
    /\ call.stage0 = PULLING /\ call.cursor0 > 0
    /\ NumOf("GET_buf") > 0

C10_EmptyTransfer ==
    (call.sid # None /\ CallSession.records_total = 0)
    => /\ NumOf("PATCH_ts") = 0
       /\ NumOf("POST_buf") = 0
       /\ NumOf("GET_buf") = 0
       /\ NumOf("dequeue") = 0
       /\ pc \in {"idle", "queuing", "total_check"}
       /\ NumOf("DELETE_ts") = (IF pc = "idle" THEN 1 ELSE 0)
       /\ (pc = "idle" /\ result = "returned") =>
             /\ CallSession.transfer_stage = COMPLETED
             /\ ~CallSession.active

\* an empty push and an empty pull were both closed
C10_Witness ==
    /\ pc = "idle" /\ result = "returned" /\ call.sid # None
    /\ CallSession.records_total = 0
    /\ \E i \in 1..Len(sessions) :
          sessions[i].push # CallSession.push /\ sessions[i].records_total = 0
                                               /\ sessions[i].transfer_stage = COMPLETED

\* C11: a fresh push of N > 0 buffered records with chunk size c in which every
\* request succeeds issues exactly ceil(N/c) POST /buffers, for the pages
\* 1, 2, ... of the buffered records in primary-key order; the pages are disjoint
\* and together are all records; records_transferred is saved after each POST
\* and is c times the number of POSTs made
C11_FreshPush ==
    LET N == CallSession.records_total
        posts == Kinds("POST_buf")
        sent == Len(posts) * chunk_size
    IN (/\ call.sid # None /\ call.push /\ call.fresh /\ call.allok
        /\ result \in {"running", "returned"}
        /\ N > 0)
       =>
       /\ \A k \in 1..Len(posts) : posts[k][2] = k
       /\ Len(posts) > 0 => (chunk_size # 0 /\ Len(posts) <= CeilDiv(N, chunk_size))
       /\ pc \in {"push_loop", "push_save"} =>
             /\ \A j, k \in 1..Len(posts) :
                   j # k => PageRows(buffer[call.sid], chunk_size, j)
                              \cap PageRows(buffer[call.sid], chunk_size, k) = {}
             /\ peerBuf[call.sid] = {r \in 0..(N - 1) : r < sent}
       /\ pc = "push_loop" => CallSession.records_transferred = sent
       /\ pc = "push_save" => CallSession.records_transferred = sent - chunk_size
       /\ (pc = "idle" /\ result = "returned") =>
             /\ Len(posts) = CeilDiv(N, chunk_size)
             /\ peerBuf[call.sid] = 0..(N - 1)
             /\ CallSession.records_transferred = sent

\* a fresh push of more than one page returned with every request succeeding
C11_Witness ==
    /\ pc = "idle" /\ result = "returned"
    /\ call.sid # None /\ call.push /\ call.fresh /\ call.allok
    /\ NumOf("POST_buf") > 1

\* the case of C11 with a chunk size that is a positive multiple of 100
C11_PositiveChunk == chunk_size > 0 => C11_FreshPush

\* C12: close_sync_session called while the slot is non-empty is refused with
\* MorangoError and changes nothing: no DELETE /syncsessions/{id} has been sent
\* and the local SyncSession stays active.  (The log is the one of the last
\* call, and close_sync_session leaves the slot as it found it.)
C12_CloseRefused ==
    (pc = "idle" /\ current_transfer_session # None)
    => /\ NumOf("DELETE_ss") = 0
       /\ result = "MorangoError" =>
             (sync_session # None /\ sync_sessions[sync_session].active)

\* close_sync_session was refused because of the slot
C12_Witness ==
    /\ pc = "idle" /\ current_transfer_session # None
    /\ result = "MorangoError"

\* C13: a SyncClient exists only with a chunk_size that is a positive multiple
\* of 100
C13_PositiveMultiple ==
    constructed => (chunk_size > 0 /\ chunk_size % Hundred = 0)

\* the constructor refused a chunk size on an existing SyncSession: no client
C13_Witness ==
    /\ ~constructed /\ result = "MorangoError"
    /\ sync_sessions # <<>>

\* the handshake of the last call, when the peer answered POST /syncsessions:
\* the certificate pair, the id sent and the signature that came back
HandshakePair == Kinds("POST_nonce")[1][2]
HandshakeId == Kinds("POST_ss")[1][2]
HandshakeSignature == Kinds("signature")[1][2]

\* C14: when the signature the peer answered POST /syncsessions with is not the
\* server certificate's over the message of the nonce and the id sent, the call
\* fails with CertificateSignatureInvalid and no local SyncSession is created;
\* with a signature that verifies, the local row of that id and pair exists
C14_SignatureChecked ==
    NumOf("signature") > 0 =>
        IF /\ HandshakeSignature.signer = HandshakePair
           /\ HandshakeSignature.message = <<HandshakeId, HandshakeId>>
        THEN /\ Len(sync_sessions) = HandshakeId
             /\ sync_sessions[HandshakeId] = [pair |-> HandshakePair, active |-> TRUE]
             /\ result # "CertificateSignatureInvalid"
        ELSE /\ Len(sync_sessions) < HandshakeId
             /\ result = "CertificateSignatureInvalid"
             /\ ~constructed

\* the peer signed the right message with another key, and the call failed
C14_Witness ==
    /\ NumOf("signature") > 0
    /\ HandshakeSignature.signer # HandshakePair
    /\ HandshakeSignature.message = <<HandshakeId, HandshakeId>>
    /\ result = "CertificateSignatureInvalid"

\* the handshake requests among the requests `l` of a call
HandshakeRequests(l) == SelectSeq(l, LAMBDA e : e[1] \in {"POST_nonce", "POST_ss"})

\* C15: at most one SyncSession of a certificate pair is active at any time;
\* a SyncClient built on a row that existed already was built without a
\* handshake and without a change of the table, and a row is created only after
\* a handshake and when no row of its pair was active
C15_OneActiveSyncSession ==
    /\ [](\A i, j \in 1..Len(sync_sessions) :
            (/\ i # j
             /\ sync_sessions[i].active /\ sync_sessions[j].active)
            => sync_sessions[i].pair # sync_sessions[j].pair)
    /\ [][(/\ sync_session' # None
           /\ sync_session' <= Len(sync_sessions)
           /\ result' \in {"constructed", "crashed"})
          => /\ sync_sessions[sync_session'].active
             /\ sync_sessions' = sync_sessions
             /\ HandshakeRequests(log') = <<>>
      ]_vars
    /\ [][Len(sync_sessions') > Len(sync_sessions)
          => /\ Len(sync_sessions') = Len(sync_sessions) + 1
             /\ ActiveSyncSessions(sync_sessions,
                                   sync_sessions'[Len(sync_sessions')].pair) = {}
             /\ Len(HandshakeRequests(log')) = 2
             /\ SubSeq(sync_sessions', 1, Len(sync_sessions)) = sync_sessions
      ]_vars

\* a pair's SyncSession was closed and a new one created for it, and the new
\* one was then reused by a later create_sync_session
C15_Witness ==
    /\ \E i, j \in 1..Len(sync_sessions) :
          /\ i < j
          /\ sync_sessions[i].pair = sync_sessions[j].pair
          /\ ~sync_sessions[i].active /\ sync_sessions[j].active
          /\ sync_session = j
    /\ result = "constructed" /\ log = <<>>

\* C16: the persisted records_transferred of a TransferSession never decreases
\* across a step, whatever chunk size the SyncClient was built with
C16_CursorMonotone ==
    [][\A i \in 1..Len(sessions) :
          sessions'[i].records_transferred >= sessions[i].records_transferred
      ]_vars

\* a cursor below the 0 it started from
C16_Witness ==
    \E i \in 1..Len(sessions) : sessions[i].records_transferred < 0

\* the case of C16 with a chunk size that is a positive multiple of 100
C16_PositiveChunk ==
    [][chunk_size > 0 =>
          \A i \in 1..Len(sessions) :
             sessions'[i].records_transferred >= sessions[i].records_transferred
      ]_vars

\* C17: of the attempts of a _request every one but the last was a connection
\* failure; ConnectionError is raised after exactly max_retries attempts, all of
\* them connection failures; a 2xx response ends the loop and is returned; a
\* non-2xx response ends it at once with the HTTP status error
C17_RetryPolicy ==
    LET a == request.attempts
        n == Len(a)
    IN /\ \A k \in 1..(n - 1) : a[k] = "connfail"
       /\ n <= request.max_retries
       /\ request.status = "looping" => (n = request.i /\ (n > 0 => a[n] = "connfail"))
       /\ request.status = "ConnectionError" =>
             (n = request.max_retries /\ (n > 0 => a[n] = "connfail"))
       /\ request.status = "returned" => (n > 0 /\ a[n] = "2xx")
       /\ request.status = "HTTPError" => (n > 0 /\ a[n] = "non2xx")
       /\ (n > 0 /\ a[n] = "2xx") => request.status = "returned"
       /\ (n > 0 /\ a[n] = "non2xx") => request.status = "HTTPError"

\* a non-2xx response came after retried connection failures and ended the
\* request with the HTTP status error
C17_Witness ==
    /\ request.status = "HTTPError"
    /\ Len(request.attempts) > 2
    /\ Len(request.attempts) < request.max_retries

\* C18: a TransferSession row becomes completed only in a step whose last
\* request is a DELETE /transfersessions/{id} of that session that succeeded
\* (the row is then inactive and the slot empty); in a step whose DELETE fails
\* with an HTTP status error the row becomes inactive, its stage stays as it
\* was, not completed, and the slot keeps the session
C18_CompletedAfterDelete ==
    [][/\ \A i \in 1..Len(sessions) :
             (/\ sessions'[i].transfer_stage = COMPLETED
              /\ sessions[i].transfer_stage # COMPLETED)
             => /\ Len(log') > Len(log)
                /\ log'[Len(log')] = <<"DELETE_ts", i>>
                /\ faults' = faults
                /\ ~sessions'[i].active
                /\ current_transfer_session = i
                /\ current_transfer_session' = None
       /\ \A i \in 1..Len(sessions) :
             (/\ Len(log') > Len(log)
              /\ log'[Len(log')] = <<"DELETE_ts", i>>
              /\ faults' = faults + 1
              /\ (result' = "HTTPError" \/ pc' = "except_outer"))
             => /\ ~sessions'[i].active
                /\ sessions'[i].transfer_stage = sessions[i].transfer_stage
                /\ sessions'[i].transfer_stage # COMPLETED
                /\ current_transfer_session' = i
      ]_vars

\* the DELETE of a session was refused: the call ended with the HTTP status
\* error, the row is inactive and not completed
C18_Witness ==
    /\ pc = "idle" /\ result = "HTTPError"
    /\ call.sid # None
    /\ log # <<>> /\ log[Len(log)] = <<"DELETE_ts", call.sid>>
    /\ ~CallSession.active
    /\ CallSession.transfer_stage = DEQUEUING

\* in the call, a GET /buffers was answered with a non-2xx status: it is the
\* only request of a pull that a DELETE /transfersessions/{id} follows directly
GetRefused ==
    \E k \in 1..(Len(log) - 1) : log[k][1] = "GET_buf" /\ log[k + 1][1] = "DELETE_ts"

\* C19: when a GET /buffers of initiate_pull is answered with a non-2xx status,
\* the call sends one DELETE /transfersessions/{id}, leaves the session
\* inactive, and ends with the HTTP status error (calls in which a request ran
\* out of retries are left aside)
C19_CloseOnce ==
    (/\ pc = "idle" /\ call.sid # None /\ ~call.push
     /\ GetRefused
     /\ result # "ConnectionError")
    => /\ NumOf("DELETE_ts") = 1
       /\ ~CallSession.active
       /\ result = "HTTPError"

\* an initiate_pull ended after a GET /buffers was refused
C19_Witness ==
    /\ pc = "idle" /\ call.sid # None /\ ~call.push
    /\ GetRefused

\* C20: when the POST /transfersessions of a fresh push is answered with a
\* non-2xx status, initiate_push ends with the HTTP status error and no
\* TransferSession row is created or changed.  (A step that ends a call with
\* no session, on the fresh push path, not by ConnectionError, is that case.)
C20_FreshPushRefused ==
    [][(/\ pc = "idle" /\ pc' = "idle"
        /\ call'.push /\ call'.fresh /\ call'.sid = None
        /\ result' # "ConnectionError")
       => /\ result' = "HTTPError"
          /\ sessions' = sessions
      ]_vars

\* a fresh push of one filter was refused while the slot held the session of
\* another filter, which is inactive now
C20_Witness ==
    /\ pc = "idle" /\ result = "HTTPError"
    /\ call.push /\ call.fresh /\ call.sid = None
    /\ current_transfer_session # None
    /\ sessions[current_transfer_session].filter # call.filter
    /\ ~sessions[current_transfer_session].active
    /\ sessions[current_transfer_session].transfer_stage = PUSHING

\* the other TransferSession rows of the sync session of row s
OtherSessions(ss, s) ==
    {i \in 1..Len(ss) : i # s /\ ss[i].sync_session = ss[s].sync_session}

\* C21: when _starting resumes an active TransferSession of the (filter, push)
\* asked for, every other TransferSession of the sync session is inactive and
\* has no Buffer rows when _starting returns, for a push and for a pull
C21_ResumeDeactivatesOthers ==
    [][(pc = "idle" /\ pc' = "queuing" /\ ~call'.fresh)
       => \A i \in OtherSessions(sessions', call'.sid) :
             ~sessions'[i].active /\ buffer'[i] = {}
      ]_vars

\* a pull was resumed while a push session of the sync session is active and
\* holds Buffer rows
C21_Witness ==
    /\ pc = "queuing" /\ ~call.fresh /\ ~call.push
    /\ \E i \in OtherSessions(sessions, call.sid) :
          sessions[i].active /\ buffer[i] # {}

\* the push direction of C21
C21_PushResume ==
    [][(pc = "idle" /\ pc' = "queuing" /\ ~call'.fresh /\ call'.push)
       => \A i \in OtherSessions(sessions', call'.sid) :
             ~sessions'[i].active /\ buffer'[i] = {}
      ]_vars

\* the last call drove a session and ended with an HTTP status error, and the
\* step is a new call with the same filter and direction
ReentryAfterHTTPError ==
    /\ pc = "idle" /\ result = "HTTPError" /\ call.sid # None
    /\ call'.filter = call.filter /\ call'.push = call.push

\* C22 as stated: a call re-entered after an HTTP status error resumes the same
\* TransferSession from its persisted stage instead of starting a new one
C22_ResumesAfterHTTPError ==
    [][ReentryAfterHTTPError
       => /\ call'.sid = call.sid
          /\ ~call'.fresh
          /\ call'.stage0 = sessions[call.sid].transfer_stage
      ]_vars

\* C22 as amended: a call that ends with an HTTP status error leaves its
\* TransferSession inactive, so the same call re-entered does not find it: it
\* starts a new TransferSession (or fails creating one)
C22_NewSessionAfterHTTPError ==
    /\ []((pc = "idle" /\ result = "HTTPError" /\ call.sid # None)
          => ~CallSession.active)
    /\ [][ReentryAfterHTTPError
          => /\ call'.fresh
             /\ call'.sid # call.sid
             /\ call'.sid # None =>
                   /\ call'.sid = Len(sessions) + 1
                   /\ sessions'[call'.sid].transfer_stage = QUEUING
      ]_vars

\* after a call failed in the pushing or pulling stage with an HTTP status
\* error, the same call was made again and runs on a new session
C22_Witness ==
    /\ pc = "queuing" /\ call.fresh /\ call.sid # None
    /\ \E i \in 1..Len(sessions) :
          /\ i # call.sid
          /\ sessions[i].filter = call.filter /\ sessions[i].push = call.push
          /\ ~sessions[i].active
          /\ sessions[i].transfer_stage \in {PUSHING, PULLING}
          /\ sessions[i].records_transferred > 0

\* C23 as stated: whenever no call is in progress, a non-empty slot refers to
\* an active TransferSession
C23_SlotActive ==
    (pc = "idle" /\ current_transfer_session # None)
    => sessions[current_transfer_session].active

\* C23 as amended: a non-empty slot refers to a TransferSession that is not
\* completed, active or not; the slot is emptied only by a close the peer
\* accepted (which completes the session) or by create_sync_session, which
\* replaces the client and touches no TransferSession
C23_SlotNotCompleted ==
    /\ [](current_transfer_session # None
          => sessions[current_transfer_session].transfer_stage # COMPLETED)
    /\ [][(current_transfer_session # None /\ current_transfer_session' = None)
          => \/ sessions'[current_transfer_session].transfer_stage = COMPLETED
             \/ sessions' = sessions /\ pc' = "idle" /\ call' = NoCall
      ]_vars

\* close_sync_session sent its DELETE and was refused because of a
\* TransferSession in the slot that is already inactive
C23_Witness ==
    /\ pc = "idle" /\ result = "MorangoError" /\ NumOf("DELETE_ss") = 1
    /\ current_transfer_session # None
    /\ ~sessions[current_transfer_session].active

\* C24 as stated: a TransferSession with records_total > 0 is completed only
\* with records_transferred >= records_total
C24_CompletedMeansAllExchanged ==
    \A i \in 1..Len(sessions) :
       (sessions[i].records_total > 0 /\ sessions[i].transfer_stage = COMPLETED)
       => sessions[i].records_transferred >= sessions[i].records_total

\* C24 as amended: a TransferSession with records_total > 0 becomes completed
\* (and inactive, leaving the slot) by a close the peer accepted, which happens
\* at the end of the transfer, in stage dequeuing, and also in the handler of an
\* HTTP status error that aborted the transfer in stage pushing or pulling,
\* whatever records_transferred is; that call does not return normally
C24_CompletedByClose ==
    [][\A i \in 1..Len(sessions) :
          (/\ sessions[i].records_total > 0
           /\ sessions[i].transfer_stage # COMPLETED
           /\ sessions'[i].transfer_stage = COMPLETED)
          => /\ i = current_transfer_session /\ current_transfer_session' = None
             /\ ~sessions'[i].active
             /\ sessions'[i].records_transferred = sessions[i].records_transferred
             /\ \/ /\ sessions[i].transfer_stage = DEQUEUING
                   /\ pc \in {"dequeuing", "closing"}
                   /\ result' = "returned"
                \/ /\ sessions[i].transfer_stage \in {PUSHING, PULLING}
                   /\ pc \in {"except_inner", "except_outer"}
                   /\ result' # "returned"
      ]_vars

\* a transfer aborted by an HTTP status error was closed and is completed with
\* chunks still to exchange
C24_Witness ==
    /\ pc = "idle" /\ result = "HTTPError" /\ call.sid # None
    /\ CallSession.transfer_stage = COMPLETED
    /\ CallSession.records_total > 0
    /\ CallSession.records_transferred < CallSession.records_total

====
